---------------------------- MODULE Spec2Model ----------------------------
(***************************************************************************)
(* The on-disk memoization decorator `cache` of barktools/base_utils.py.   *)
(*                                                                         *)
(* The state is the part of the file system under cache_dir, the position  *)
(* and local variables of every caller that is inside `wrapper`, and       *)
(* history variables that record what each call did.  A caller runs the    *)
(* statements of `wrapper` one at a time, so that two callers interleave   *)
(* exactly as two processes calling the decorated function would.          *)
(***************************************************************************)
EXTENDS Integers, Sequences, FiniteSets, TLC

(***************************************************************************)
(* Bounds of the model.                                                    *)
(***************************************************************************)
MaxCalls == 3          \* calls of a wrapped function in one behaviour
MaxFaults == 1         \* failures and external changes in one behaviour

Callers == {1, 2}
Values == {16, 25}     \* results the wrapped function may return

None == "None"

(***************************************************************************)
(* The decorated functions: fun.__name__ and the cache_id option.          *)
(***************************************************************************)
Wrapped ==
    { [name |-> "square", cache_id |-> None],
      [name |-> "cube",   cache_id |-> "cubes"] }

(***************************************************************************)
(* The arguments of a call are integers and strings.  str() of an integer  *)
(* is its decimal digits and str() of a string is the string; repr() of a  *)
(* string adds quotes.  Strings are sequences of characters.               *)
(***************************************************************************)
IntVal(n) == [t |-> "int", n |-> n, s |-> <<>>]
StrVal(s) == [t |-> "str", n |-> 0, s |-> s]

DigitChars == <<"0", "1", "2", "3", "4", "5", "6", "7", "8", "9">>

RECURSIVE Digits(_)
Digits(n) ==
    IF n < 10 THEN <<DigitChars[n + 1]>>
    ELSE Digits(n \div 10) \o <<DigitChars[(n % 10) + 1]>>

Str(v) == IF v.t = "int" THEN Digits(v.n) ELSE v.s

Repr(v) == IF v.t = "int" THEN Digits(v.n) ELSE <<"'">> \o v.s \o <<"'">>

RECURSIVE StrAll(_)
StrAll(args) ==
    IF Len(args) = 0 THEN <<>> ELSE <<Str(args[1])>> \o StrAll(Tail(args))

RECURSIVE ReprAll(_)
ReprAll(args) ==
    IF Len(args) = 0 THEN <<>> ELSE <<Repr(args[1])>> \o ReprAll(Tail(args))

\* str(kwargs): kwargs is the sequence of the keyword arguments in call order
RECURSIVE DictItems(_)
DictItems(kw) ==
    IF Len(kw) = 0 THEN <<>>
    ELSE <<"'">> \o kw[1].key \o <<"'", ":", " ">> \o Repr(kw[1].val)
         \o (IF Len(kw) = 1 THEN <<>> ELSE <<",", " ">> \o DictItems(Tail(kw)))

StrDict(kw) == <<"{">> \o DictItems(kw) \o <<"}">>

\* the positional arguments of the calls of Spec and SpecConc
ArgLists == { <<IntVal(4)>>, <<IntVal(5)>> }

\* a call without keyword arguments
NoKwargs == <<>>

CACHE_DIR == ".cache"

(***************************************************************************)
(* simple_hash_fun: "§".join(str(arg) for arg in args) + str(kwargs), then *)
(* SHA-1.  SHA-1 is taken to be collision free: the digest is represented  *)
(* by its preimage.                                                        *)
(***************************************************************************)
RECURSIVE Join(_)
Join(strs) ==
    IF Len(strs) = 0 THEN <<>>
    ELSE IF Len(strs) = 1 THEN strs[1]
    ELSE strs[1] \o <<"§">> \o Join(Tail(strs))

Sha1Hex(s) == <<"sha1">> \o s

\* mutant of simple_hash_fun: repr() of the arguments is hashed, not str()
simple_hash_fun_Repr(args, kwargs) == Sha1Hex(Join(ReprAll(args)) \o StrDict(kwargs))

simple_hash_fun(args, kwargs) == Sha1Hex(Join(StrAll(args)) \o StrDict(kwargs))

\* mutant of CacheId: without cache_id every function gets the same directory
CacheId_Shared(w) == IF w.cache_id # None /\ w.cache_id # "" THEN w.cache_id ELSE "cache"

\* cache_id_ = cache_id if cache_id else fun.__name__
CacheId(w) == IF w.cache_id # None /\ w.cache_id # "" THEN w.cache_id ELSE w.name

\* cache_fp = cache_dir / cache_id_ / f"{hash}.cache"
CacheFp(w, args, kwargs) ==
    [dir |-> CacheId(w), file |-> simple_hash_fun(args, kwargs) \o <<".cache">>]

(***************************************************************************)
(* The calls of SpecSeq: a third function without cache_id, arguments of   *)
(* both types with equal str(), arguments that hold the separator, and     *)
(* keyword arguments.                                                      *)
(***************************************************************************)
Square == [name |-> "square", cache_id |-> None]
Sqrt == [name |-> "sqrt", cache_id |-> None]
Cube == [name |-> "cube", cache_id |-> "cubes"]

Invocation(w, args, kwargs) == [w |-> w, args |-> args, kwargs |-> kwargs]

Kw(key, val) == <<[key |-> key, val |-> val]>>

SeqCalls ==
    { Invocation(Square, <<IntVal(1)>>, NoKwargs),
      Invocation(Square, <<StrVal(<<"1">>)>>, NoKwargs),
      Invocation(Square, <<StrVal(<<"a", "§", "b">>)>>, NoKwargs),
      Invocation(Square, <<StrVal(<<"a">>), StrVal(<<"b">>)>>, NoKwargs),
      Invocation(Square, <<IntVal(1)>>, Kw(<<"k">>, IntVal(1))),
      Invocation(Square, <<IntVal(1)>>, Kw(<<"k">>, StrVal(<<"1">>))),
      Invocation(Sqrt, <<IntVal(1)>>, NoKwargs),
      Invocation(Cube, <<IntVal(1)>>, NoKwargs) }

NoCall == Invocation([name |-> "", cache_id |-> None], <<>>, <<>>)

Paths ==
    { CacheFp(w, a, NoKwargs) : w \in Wrapped, a \in ArgLists }
        \cup { CacheFp(i.w, i.args, i.kwargs) : i \in SeqCalls }

\* cache_fp.parent and its parents below the repository root
Parents(p) == { CACHE_DIR, p.dir }

(***************************************************************************)
(* Files.  A file is a sequence of bytes; NoFile is the absent file.       *)
(***************************************************************************)
NoFile == [exists |-> FALSE, data |-> <<>>]
File(bytes) == [exists |-> TRUE, data |-> bytes]

Prefix(s, k) == SubSeq(s, 1, k)

\* mutant of Overwrite: the file is opened with "ab", the bytes are appended
Overwrite_Append(old, bytes) == old \o bytes

\* writing `bytes` at offset 0 of a file that holds `old`
Overwrite(old, bytes) ==
    IF Len(old) > Len(bytes)
    THEN bytes \o SubSeq(old, Len(bytes) + 1, Len(old))
    ELSE bytes

(***************************************************************************)
(* pickle.dump / pickle.load (protocol 4) on the small integers the model  *)
(* uses: PROTO 4, BININT1 v, STOP.  load reads one pickle from the start   *)
(* of the file and fails on anything that ends before its STOP opcode.     *)
(***************************************************************************)
PickleDump(v) == <<128, 4, 75, v, 46>>

LoadError == [ok |-> FALSE, val |-> 0]

\* mutant of PickleBody: the opcode is taken for the operand
PickleBody_Opcode(bytes) ==
    IF Len(bytes) >= 3 /\ bytes[1] = 75 /\ bytes[3] = 46
    THEN [ok |-> TRUE, val |-> bytes[1]]
    ELSE LoadError

PickleBody(bytes) ==
    IF Len(bytes) >= 3 /\ bytes[1] = 75 /\ bytes[3] = 46
    THEN [ok |-> TRUE, val |-> bytes[2]]
    ELSE LoadError

PickleLoad(bytes) ==
    IF Len(bytes) >= 2 /\ bytes[1] = 128
    THEN IF bytes[2] = 4 THEN PickleBody(SubSeq(bytes, 3, Len(bytes))) ELSE LoadError
    ELSE PickleBody(bytes)

VARIABLES
    fs,        \* [Paths -> file]: the files under cache_dir
    dirs,      \* the directories that exist: CACHE_DIR and the namespaces
    pc,        \* [Callers -> position in wrapper]
    cache_fp,  \* [Callers -> the path of the current call]
    output,    \* [Callers -> the result of fun in the current call, or -1]
    ret,       \* [Callers -> how the last call ended]
    did,       \* [Callers -> what the current call has done so far]
    seen,      \* [Callers -> the call and the file system as it was when
               \*  the call began]
    hist,      \* [Paths -> history of the calls and changes on that path]
    ncalls,    \* number of calls begun
    nfaults    \* number of failures and external changes so far

\* RingBuffer (lines 759-800): the fields of one buffer, and the items put
VARIABLES
    rb_items,        \* __items, slot i of the list at position i + 1
    rb_buffer_size,  \* __buffer_size
    rb_index,        \* __index
    put_log          \* the items put so far, oldest first

\* Clocker (lines 673-743): the fields of one Clocker, its log files, the clock
\* and the operations called so far
VARIABLES
    ck_t,               \* _t: time_ns() of the latest start, or NoTime
    ck_current_target,  \* _current_target, or None
    ck_target_logs,     \* target_logs and the files behind it, by target
    ck_keys,            \* the keys of target_logs in the order of insertion
    ck_ops,             \* the operations called so far, oldest first
    now                 \* what time.time_ns() returns

\* Stopwatch (lines 593-670): one stopwatch, the clock it reads, the latest
\* call and the time it has truly been running
VARIABLES
    sw,          \* the fields __is_running, __elapsed, __start_time, __stop_time
    sw_time,     \* what time.time() returns
    sw_last,     \* the latest call: its name, what it returned, the stopwatch
                 \* and the running time before it
    sw_running,  \* a start or restart has been called and no stop or reset since
    sw_total     \* the time passed while sw_running since the last reset or
                 \* restart

\* Ticker (lines 491-546): its stopwatch, its clock and the ticks made; its
\* buffer is the RingBuffer above
VARIABLES
    tk_stopwatch,  \* the fields of __stopwatch
    tk_time,       \* what time.time() returns
    tk_log         \* the ticks so far: when called, when ended, what returned

\* remove_extension (lines 142-159): the argument and the value returned
VARIABLES
    re_s,    \* s, a string as the sequence of its characters
    re_out   \* whether the function has returned, and what

\* select_options (lines 839-898): the options shown, the position in the
\* loop, what the user typed last, the list returned, the failures printed
VARIABLES
    so_options,
    so_pc,
    so_input,
    so_result,
    so_printed

\* MultiBaseNumber (compute_utils.py, lines 3-76): the bases given and the
\* outcomes of two constructions over them
VARIABLES
    mb_bases,
    mb_x,
    mb_y

cache_vars ==
    <<fs, dirs, pc, cache_fp, output, ret, did, seen, hist, ncalls, nfaults>>

rb_vars == <<rb_items, rb_buffer_size, rb_index, put_log>>

ck_vars == <<ck_t, ck_current_target, ck_target_logs, ck_keys, ck_ops, now>>

sw_vars == <<sw, sw_time, sw_last, sw_running, sw_total>>

tk_vars == <<tk_stopwatch, tk_time, tk_log>>

re_vars == <<re_s, re_out>>

so_vars == <<so_options, so_pc, so_input, so_result, so_printed>>

mb_vars == <<mb_bases, mb_x, mb_y>>

\* the state of the three functions checked on their own
fn_vars == <<re_vars, so_vars, mb_vars>>

\* what RingBuffer, Clocker and Ticker all leave alone
rest_vars == <<sw_vars, fn_vars>>

\* what the three functions leave alone
obj_vars == <<cache_vars, rb_vars, ck_vars, tk_vars, sw_vars>>

\* what the cache decorator leaves alone
util_vars == <<rb_vars, ck_vars, tk_vars, rest_vars>>

vars == <<cache_vars, rb_vars, ck_vars, tk_vars, rest_vars>>

NoRet == [kind |-> "none", val |-> 0, err |-> ""]
Value(v) == [kind |-> "value", val |-> v, err |-> ""]
Raise(e) == [kind |-> "raise", val |-> 0, err |-> e]

NoHist ==
    [f_calls |-> 0,            \* invocations of fun for this path
     n_ret |-> 0,              \* calls on this path that have ended
     first |-> NoRet,          \* how the first call on this path ended
     last |-> NoRet,           \* how the latest call on this path ended
     tampered |-> FALSE,       \* an external change has touched the path
     written |-> FALSE,        \* a miss has written the entry completely
     first_written |-> <<>>,   \* what the first such miss wrote
     deleted |-> FALSE,        \* the written entry was deleted, no call since
     recreated |-> FALSE,      \* the first call after a deletion wrote the entry
                               \* and has not been touched since
     last_close |-> 0,         \* the caller whose write finished last
     by |-> NoCall]            \* the call that wrote the entry last

AnyPath == CHOOSE p \in Paths : TRUE

(***************************************************************************)
(* RingBuffer.__init__, lines 768-771.                                     *)
(***************************************************************************)
MaxSize == 3
MaxPuts == 10

\* the None that fills the slots of a new buffer
NoneItem == -1

RingBufferInit(buffer_size) ==
    /\ rb_items = [i \in 1..buffer_size |-> NoneItem]
    /\ rb_buffer_size = buffer_size
    /\ rb_index = 0
    /\ put_log = <<>>

(***************************************************************************)
(* Clocker.__init__, lines 693-699, with no targets: a fresh log           *)
(* directory, no file opened.                                              *)
(***************************************************************************)
MaxOps == 4
MaxTime == 2

Targets == {"fun1", "fun2"}

\* the None of _t
NoTime == -1

\* the log of a target: whether target_logs has it, whether its file is
\* closed, the lines written and not flushed, the lines in the file
NoLog == [added |-> FALSE, closed |-> FALSE, buf |-> <<>>, disk |-> <<>>]

ClockerInit ==
    /\ ck_t = NoTime
    /\ ck_current_target = None
    /\ ck_target_logs = [t \in Targets |-> NoLog]
    /\ ck_keys = <<>>
    /\ ck_ops = <<>>
    /\ now = 0

CacheInit ==
    /\ fs = [p \in Paths |-> NoFile]
    /\ dirs = {}
    /\ pc = [c \in Callers |-> "idle"]
    /\ cache_fp = [c \in Callers |-> AnyPath]
    /\ output = [c \in Callers |-> -1]
    /\ ret = [c \in Callers |-> NoRet]
    /\ did = [c \in Callers |-> {}]
    /\ seen = [c \in Callers |->
                 [file |-> NoFile, dirs |-> {}, h |-> NoHist, call |-> NoCall]]
    /\ hist = [p \in Paths |-> NoHist]
    /\ ncalls = 0
    /\ nfaults = 0

(***************************************************************************)
(* Stopwatch.__init__, lines 596-600.                                      *)
(***************************************************************************)
MaxClock == 3

Stopwatch ==
    [is_running |-> FALSE, elapsed |-> 0, start_time |-> 0, stop_time |-> 0]

\* a call of the stopwatch: op, the value returned (0 where the method
\* returns nothing), the fields and the running time before the call
SwCall(op, r, s, total) == [op |-> op, ret |-> r, sw |-> s, total |-> total]

StopwatchInit ==
    /\ sw = Stopwatch
    /\ sw_time = 0
    /\ sw_last = SwCall("init", 0, Stopwatch, 0)
    /\ sw_running = FALSE
    /\ sw_total = 0

(***************************************************************************)
(* Ticker.__init__, lines 515-518; the buffer is set by RingBufferInit.    *)
(***************************************************************************)
TickerInit ==
    /\ tk_stopwatch = Stopwatch
    /\ tk_time = 0
    /\ tk_log = <<>>

(***************************************************************************)
(* The inputs of remove_extension, select_options and MultiBaseNumber.     *)
(***************************************************************************)
NoOutput == [done |-> FALSE, val |-> <<>>]

RemoveExtensionInit(s) ==
    /\ re_s = s
    /\ re_out = NoOutput

\* the options shown to the user: the first n of these
AllOptions == <<"x", "y", "z">>

SelectOptionsInit(n) ==
    /\ so_options = SubSeq(AllOptions, 1, n)
    /\ so_pc = "input"
    /\ so_input = <<>>
    /\ so_result = <<>>
    /\ so_printed = 0

\* no MultiBaseNumber constructed yet
NoNumber == [made |-> FALSE, raised |-> "", bases |-> <<>>, digits |-> <<>>]

MultiBaseInit(bases) ==
    /\ mb_bases = bases
    /\ mb_x = NoNumber
    /\ mb_y = NoNumber

FnInit ==
    /\ RemoveExtensionInit(<<>>)
    /\ SelectOptionsInit(1)
    /\ MultiBaseInit(<<>>)

\* every object new, no method called
ObjInit ==
    /\ CacheInit
    /\ RingBufferInit(1)
    /\ ClockerInit
    /\ StopwatchInit
    /\ TickerInit

Init == ObjInit /\ FnInit

\* mutants of IsFile: the test is dropped; an empty file counts as absent;
\* the namespace directory is tested instead of the entry file
IsFile_Never(p) == FALSE

IsFile_NonEmpty(p) == fs[p].exists /\ Len(fs[p].data) > 0

IsFile_Dir(p) == p.dir \in dirs

\* cache_fp.is_file()
IsFile(p) == fs[p].exists

\* the call of caller c ends with r: it returns a value or raises
Ended(c, r) ==
    LET p == cache_fp[c] IN
    [hist EXCEPT ![p].n_ret = @ + 1,
                 ![p].first = IF hist[p].n_ret = 0 THEN r ELSE @,
                 ![p].last = r]

(***************************************************************************)
(* wrapper, lines 964-968: the path of the entry and the test for a hit.   *)
(* A call begins when the caller is not inside wrapper.                    *)
(***************************************************************************)
CallKw(c, w, args, kwargs) ==
    LET p == CacheFp(w, args, kwargs) IN
    /\ pc[c] \in {"idle", "done"}
    /\ ncalls < MaxCalls
    /\ ncalls' = ncalls + 1
    /\ cache_fp' = [cache_fp EXCEPT ![c] = p]
    /\ pc' = [pc EXCEPT ![c] = IF IsFile(p) THEN "load" ELSE "fun"]
    /\ output' = [output EXCEPT ![c] = -1]
    /\ ret' = [ret EXCEPT ![c] = NoRet]
    /\ did' = [did EXCEPT ![c] = {}]
    /\ seen' = [seen EXCEPT ![c] =
                    [file |-> fs[p], dirs |-> dirs, h |-> hist[p],
                     call |-> Invocation(w, args, kwargs)]]
    /\ hist' = [hist EXCEPT ![p].deleted = FALSE]
    /\ UNCHANGED <<util_vars, fs, dirs, nfaults>>

\* a call without keyword arguments
Call(c, w, args) == CallKw(c, w, args, NoKwargs)

(***************************************************************************)
(* Lines 969-970: open the entry and return load_fn(f).  An error of open  *)
(* or of load_fn leaves wrapper as it is.                                  *)
(***************************************************************************)
\* with open(cache_fp, "rb") as f: return load_fn(f)
ReadEntry(p) ==
    IF ~fs[p].exists THEN Raise("FileNotFoundError")
    ELSE IF PickleLoad(fs[p].data).ok THEN Value(PickleLoad(fs[p].data).val)
    ELSE Raise("LoadError")

\* mutant of Load: the `return` is missing, the call goes on to compute
Load_NoReturn(c) ==
    /\ pc[c] = "load"
    /\ did' = [did EXCEPT ![c] = @ \cup {"load"}]
    /\ pc' = [pc EXCEPT ![c] = "fun"]
    /\ UNCHANGED <<util_vars, fs, dirs, cache_fp, output, ret, seen, hist, ncalls, nfaults>>

\* mutant of Load: the entry is opened with "wb", which truncates it
Load_OpenWb(c) ==
    LET p == cache_fp[c]
        res == Raise("LoadError")
    IN
    /\ pc[c] = "load"
    /\ fs' = [fs EXCEPT ![p] = File(<<>>)]
    /\ did' = [did EXCEPT ![c] = @ \cup {"load"}]
    /\ ret' = [ret EXCEPT ![c] = res]
    /\ pc' = [pc EXCEPT ![c] = "done"]
    /\ hist' = Ended(c, res)
    /\ UNCHANGED <<util_vars, dirs, cache_fp, output, seen, ncalls, nfaults>>

\* mutant of Load: an entry that does not load is taken for a miss
Load_Recompute(c) ==
    LET res == ReadEntry(cache_fp[c]) IN
    /\ pc[c] = "load"
    /\ did' = [did EXCEPT ![c] = IF res.kind = "value" THEN @ \cup {"load"} ELSE @]
    /\ ret' = [ret EXCEPT ![c] = IF res.kind = "value" THEN res ELSE @]
    /\ pc' = [pc EXCEPT ![c] = IF res.kind = "value" THEN "done" ELSE "fun"]
    /\ hist' = IF res.kind = "value" THEN Ended(c, res) ELSE hist
    /\ UNCHANGED <<util_vars, fs, dirs, cache_fp, output, seen, ncalls, nfaults>>

Load(c) ==
    LET res == ReadEntry(cache_fp[c]) IN
    /\ pc[c] = "load"
    /\ did' = [did EXCEPT ![c] = @ \cup {"load"}]
    /\ ret' = [ret EXCEPT ![c] = res]
    /\ pc' = [pc EXCEPT ![c] = "done"]
    /\ hist' = Ended(c, res)
    /\ UNCHANGED <<util_vars, fs, dirs, cache_fp, output, seen, ncalls, nfaults>>

(***************************************************************************)
(* Line 972: output = fun(args, kwargs).  fun returns any value, or        *)
(* raises.                                                                 *)
(***************************************************************************)
FunReturn(c, v) ==
    LET p == cache_fp[c] IN
    /\ pc[c] = "fun"
    /\ output' = [output EXCEPT ![c] = v]
    /\ did' = [did EXCEPT ![c] = @ \cup {"fun"}]
    /\ hist' = [hist EXCEPT ![p].f_calls = @ + 1]
    /\ pc' = [pc EXCEPT ![c] = "mkdir"]
    /\ UNCHANGED <<util_vars, fs, dirs, cache_fp, ret, seen, ncalls, nfaults>>

\* mutant of FunRaise: the directory is made before fun is called
FunRaise_MkdirFirst(c) ==
    LET p == cache_fp[c] IN
    /\ pc[c] = "fun"
    /\ nfaults < MaxFaults
    /\ nfaults' = nfaults + 1
    /\ dirs' = dirs \cup Parents(p)
    /\ did' = [did EXCEPT ![c] = @ \cup {"fun"}]
    /\ ret' = [ret EXCEPT ![c] = Raise("FunError")]
    /\ pc' = [pc EXCEPT ![c] = "done"]
    /\ hist' = [Ended(c, Raise("FunError")) EXCEPT ![p].f_calls = @ + 1]
    /\ UNCHANGED <<util_vars, fs, cache_fp, output, seen, ncalls>>

FunRaise(c) ==
    LET p == cache_fp[c] IN
    /\ pc[c] = "fun"
    /\ nfaults < MaxFaults
    /\ nfaults' = nfaults + 1
    /\ did' = [did EXCEPT ![c] = @ \cup {"fun"}]
    /\ ret' = [ret EXCEPT ![c] = Raise("FunError")]
    /\ pc' = [pc EXCEPT ![c] = "done"]
    /\ hist' = [Ended(c, Raise("FunError")) EXCEPT ![p].f_calls = @ + 1]
    /\ UNCHANGED <<util_vars, fs, dirs, cache_fp, output, seen, ncalls>>

(***************************************************************************)
(* Line 974: cache_fp.parent.mkdir(parents=True, exist_ok=True).           *)
(***************************************************************************)
Mkdir(c) ==
    /\ pc[c] = "mkdir"
    /\ dirs' = dirs \cup Parents(cache_fp[c])
    /\ pc' = [pc EXCEPT ![c] = "open"]
    /\ UNCHANGED <<util_vars, fs, cache_fp, output, ret, did, seen, hist, ncalls, nfaults>>

\* a directory is missing and cannot be created.  mkdir(parents=True)
\* creates cache_dir and then the namespace directory, one os.mkdir each:
\* it fails at the first directory it has to create (made = 0), or at the
\* namespace directory after it has created cache_dir (made = 1)
MkdirFail(c, made) ==
    /\ pc[c] = "mkdir"
    /\ nfaults < MaxFaults
    /\ nfaults' = nfaults + 1
    /\ ~(Parents(cache_fp[c]) \subseteq dirs)
    /\ made = 1 => CACHE_DIR \notin dirs
    /\ dirs' = IF made = 1 THEN dirs \cup {CACHE_DIR} ELSE dirs
    /\ ret' = [ret EXCEPT ![c] = Raise("MkdirError")]
    /\ pc' = [pc EXCEPT ![c] = "done"]
    /\ hist' = Ended(c, Raise("MkdirError"))
    /\ UNCHANGED <<util_vars, fs, cache_fp, output, did, seen, ncalls>>

(***************************************************************************)
(* Line 975: open(cache_fp, "wb") creates the file, or truncates it.       *)
(***************************************************************************)
OpenWrite(c) ==
    /\ pc[c] = "open"
    /\ fs' = [fs EXCEPT ![cache_fp[c]] = File(<<>>)]
    /\ pc' = [pc EXCEPT ![c] = "dump"]
    /\ UNCHANGED <<util_vars, dirs, cache_fp, output, ret, did, seen, hist, ncalls, nfaults>>

OpenFail(c) ==
    /\ pc[c] = "open"
    /\ nfaults < MaxFaults
    /\ nfaults' = nfaults + 1
    /\ ret' = [ret EXCEPT ![c] = Raise("OpenError")]
    /\ pc' = [pc EXCEPT ![c] = "done"]
    /\ hist' = Ended(c, Raise("OpenError"))
    /\ UNCHANGED <<util_vars, fs, dirs, cache_fp, output, did, seen, ncalls>>

(***************************************************************************)
(* Lines 975-978: dump_fn(output, f), the end of the with block, which     *)
(* flushes the buffered bytes at offset 0 and closes the file, and         *)
(* `return output`.                                                        *)
(***************************************************************************)
Written(c, bytes) ==
    LET p == cache_fp[c] IN
    IF fs[p].exists THEN [fs EXCEPT ![p] = File(Overwrite(fs[p].data, bytes))] ELSE fs

Dump(c) ==
    LET p == cache_fp[c]
        h == Ended(c, Value(output[c]))
    IN
    /\ pc[c] = "dump"
    /\ fs' = Written(c, PickleDump(output[c]))
    /\ did' = [did EXCEPT ![c] = @ \cup {"store"}]
    /\ ret' = [ret EXCEPT ![c] = Value(output[c])]
    /\ pc' = [pc EXCEPT ![c] = "done"]
    /\ hist' = [h EXCEPT ![p].written = TRUE,
                         ![p].first_written =
                             IF hist[p].written THEN @ ELSE PickleDump(output[c]),
                         ![p].recreated = seen[c].h.deleted \/ @,
                         ![p].last_close = c,
                         ![p].by = seen[c].call]
    /\ UNCHANGED <<util_vars, dirs, cache_fp, output, seen, ncalls, nfaults>>

\* dump_fn raises, or the flush fails after k bytes (disk full)
DumpFail(c, k) ==
    /\ pc[c] = "dump"
    /\ nfaults < MaxFaults
    /\ nfaults' = nfaults + 1
    /\ k < Len(PickleDump(output[c]))
    /\ fs' = Written(c, Prefix(PickleDump(output[c]), k))
    /\ ret' = [ret EXCEPT ![c] = Raise("DumpError")]
    /\ pc' = [pc EXCEPT ![c] = "done"]
    /\ hist' = Ended(c, Raise("DumpError"))
    /\ UNCHANGED <<util_vars, dirs, cache_fp, output, did, seen, ncalls>>

(***************************************************************************)
(* External changes to the cache directory, made between calls: an entry   *)
(* file is deleted by hand, or is cut short.  pc = "done" is the state in  *)
(* which a call has just ended; an external change comes after that.      *)
(***************************************************************************)
Quiet == \A c \in Callers : pc[c] \in {"idle", "done"}

ExtDelete(p) ==
    /\ Quiet
    /\ nfaults < MaxFaults
    /\ fs[p].exists
    /\ fs' = [fs EXCEPT ![p] = NoFile]
    /\ hist' = [hist EXCEPT ![p].tampered = TRUE,
                            ![p].deleted = hist[p].written,
                            ![p].recreated = FALSE]
    /\ nfaults' = nfaults + 1
    /\ pc' = [c \in Callers |-> "idle"]
    /\ UNCHANGED <<util_vars, dirs, cache_fp, output, ret, did, seen, ncalls>>

ExtTruncate(p, k) ==
    /\ Quiet
    /\ nfaults < MaxFaults
    /\ fs[p].exists
    /\ k < Len(fs[p].data)
    /\ fs' = [fs EXCEPT ![p] = File(Prefix(fs[p].data, k))]
    /\ hist' = [hist EXCEPT ![p].tampered = TRUE,
                            ![p].recreated = FALSE]
    /\ nfaults' = nfaults + 1
    /\ pc' = [c \in Callers |-> "idle"]
    /\ UNCHANGED <<util_vars, dirs, cache_fp, output, ret, did, seen, ncalls>>

(***************************************************************************)
(* Spec: one caller, every failure of fun and of the file system, and      *)
(* external changes between calls.                                         *)
(***************************************************************************)
Next ==
    \/ \E w \in Wrapped, a \in ArgLists : Call(1, w, a)
    \/ Load(1)
    \/ \E v \in Values : FunReturn(1, v)
    \/ FunRaise(1)
    \/ Mkdir(1)
    \/ \E made \in 0..1 : MkdirFail(1, made)
    \/ OpenWrite(1)
    \/ OpenFail(1)
    \/ Dump(1)
    \/ \E k \in 0..4 : DumpFail(1, k)
    \/ \E p \in Paths : ExtDelete(p)
    \/ \E p \in Paths, k \in 0..4 : ExtTruncate(p, k)

Spec == Init /\ [][Next]_vars

(***************************************************************************)
(* SpecConc: two callers whose steps interleave; fun returns and the file  *)
(* system does not fail.                                                   *)
(***************************************************************************)
NextConc ==
    \E c \in Callers :
        \/ \E w \in Wrapped, a \in ArgLists : Call(c, w, a)
        \/ Load(c)
        \/ \E v \in Values : FunReturn(c, v)
        \/ Mkdir(c)
        \/ OpenWrite(c)
        \/ Dump(c)

SpecConc == Init /\ [][NextConc]_vars

(***************************************************************************)
(* SpecSeq: one caller, no failure and no external change; the calls are   *)
(* those of SeqCalls.                                                      *)
(***************************************************************************)
NextSeq ==
    \/ \E i \in SeqCalls : CallKw(1, i.w, i.args, i.kwargs)
    \/ Load(1)
    \/ \E v \in Values : FunReturn(1, v)
    \/ Mkdir(1)
    \/ OpenWrite(1)
    \/ Dump(1)

SpecSeq == Init /\ [][NextSeq]_vars

(***************************************************************************)
(* RingBuffer, lines 759-800.  Slot i of __items is rb_items[i + 1].       *)
(***************************************************************************)
\* items(), lines 773-775
items == rb_items

\* mutant of put: the index moves before the item is stored
put_IndexFirst(item) ==
    /\ Len(put_log) < MaxPuts
    /\ rb_items' =
           [rb_items EXCEPT ![((rb_index + 1) % rb_buffer_size) + 1] = item]
    /\ rb_index' = (rb_index + 1) % rb_buffer_size
    /\ put_log' = Append(put_log, item)
    /\ UNCHANGED <<rb_buffer_size, cache_vars, ck_vars, rest_vars>>

\* put(item), lines 777-780
put(item) ==
    /\ Len(put_log) < MaxPuts
    /\ rb_items' = [rb_items EXCEPT ![rb_index + 1] = item]
    /\ rb_index' = (rb_index + 1) % rb_buffer_size
    /\ put_log' = Append(put_log, item)
    /\ UNCHANGED <<rb_buffer_size, cache_vars, ck_vars, rest_vars>>

\* mutant of last: the slot at the index, without the step back
last_AtIndex == rb_items[(rb_index % rb_buffer_size) + 1]

\* last(), lines 782-784
last == rb_items[((rb_index - 1) % rb_buffer_size) + 1]

AssertionError == [ok |-> FALSE, val |-> <<>>]

\* mutant of n_last: range(n) is not reversed
n_last_Forward(n) ==
    IF n > rb_buffer_size
    THEN AssertionError
    ELSE [ok |-> TRUE,
          val |-> [j \in 1..n |->
                     rb_items[((rb_index - (j - 1) - 1) % rb_buffer_size) + 1]]]

\* n_last(n), lines 786-800: the j-th element of the list is appended for
\* i = n - j of reversed(range(n))
n_last(n) ==
    IF n > rb_buffer_size
    THEN AssertionError
    ELSE [ok |-> TRUE,
          val |-> [j \in 1..n |->
                     rb_items[((rb_index - (n - j) - 1) % rb_buffer_size) + 1]]]

\* the items put: the number of the put or the number after it, so that
\* runs of 0, 1, 2, ... and of 1, 2, 3, ... and repeated items all occur
PutItems == {Len(put_log), Len(put_log) + 1}

(***************************************************************************)
(* SpecRing: a buffer of any size from 1 to MaxSize and any sequence of    *)
(* up to MaxPuts puts.                                                     *)
(***************************************************************************)
InitRing ==
    /\ CacheInit
    /\ \E buffer_size \in 1..MaxSize : RingBufferInit(buffer_size)
    /\ ClockerInit
    /\ StopwatchInit
    /\ TickerInit
    /\ FnInit

NextRing == \E item \in PutItems : put(item) /\ UNCHANGED tk_vars

SpecRing == InitRing /\ [][NextRing]_vars

(***************************************************************************)
(* Clocker, lines 673-743.  A sample is kept as the elapsed nanoseconds    *)
(* that line 717 divides by 1e9 and line 718 writes as one line.  A line   *)
(* written stays in the buffer of the file object until the file is        *)
(* flushed, closed or dropped.                                             *)
(***************************************************************************)
\* the record of one operation: the time when it was called, the time of
\* its last reading of the clock, the exception that left it ("" for none)
\* and the target a sample was written for
OpRec(op, target, t_end, raised, wrote) ==
    [op |-> op, target |-> target, t |-> now, t_end |-> t_end,
     raised |-> raised, wrote |-> wrote]

\* how stop_clock ends in the current state: line 717 subtracts _t, line 718
\* looks the current target up and writes to its file
StopRaises ==
    IF ck_t = NoTime THEN "TypeError"
    ELSE IF ck_current_target = None THEN "KeyError"
    ELSE IF ck_target_logs[ck_current_target].closed THEN "ValueError"
    ELSE ""

\* target_logs after the write of line 718
SampleWritten ==
    [ck_target_logs EXCEPT ![ck_current_target].buf = Append(@, now - ck_t)]

\* stop_clock(), lines 715-719
stop_clock ==
    /\ Len(ck_ops) < MaxOps
    /\ IF StopRaises = ""
       THEN /\ ck_target_logs' = SampleWritten
            /\ ck_current_target' = None
            /\ ck_ops' = Append(ck_ops,
                   OpRec("stop_clock", None, now, "", ck_current_target))
       ELSE /\ ck_ops' = Append(ck_ops,
                   OpRec("stop_clock", None, now, StopRaises, None))
            /\ UNCHANGED <<ck_target_logs, ck_current_target>>
    /\ UNCHANGED <<ck_t, ck_keys, now, cache_vars, rb_vars, tk_vars, rest_vars>>

\* add_targets(target), lines 721-726: a new file object, opened for
\* appending, takes the place of the one target_logs had for the target;
\* the old one is dropped, which writes its buffered lines to the file
add_targets(logs, target) ==
    [logs EXCEPT ![target] =
        [added |-> TRUE, closed |-> FALSE, buf |-> <<>>,
         disk |-> logs[target].disk \o logs[target].buf]]

\* the keys of target_logs after add_targets(target)
KeysAdded(keys, target) ==
    IF \E i \in 1..Len(keys) : keys[i] = target
    THEN keys
    ELSE Append(keys, target)

\* a call of add_targets(target) from outside
AddTargets(target) ==
    /\ Len(ck_ops) < MaxOps
    /\ ck_target_logs' = add_targets(ck_target_logs, target)
    /\ ck_keys' = KeysAdded(ck_keys, target)
    /\ ck_ops' = Append(ck_ops, OpRec("add_targets", target, now, "", None))
    /\ UNCHANGED <<ck_t, ck_current_target, now, cache_vars, rb_vars, tk_vars,
                   rest_vars>>

\* clock(target), lines 701-713 and _start_clock, lines 738-740.
\* stop_clock reads the time when clock is called; _start_clock reads it
\* d ticks later. With no measurement to stop the one reading is that of
\* _start_clock; when stop_clock raises there is no second reading.
clock(target, d) ==
    LET stops == ck_t # NoTime
        raised == IF stops THEN StopRaises ELSE ""
        stopped == IF stops THEN SampleWritten ELSE ck_target_logs
    IN
    /\ Len(ck_ops) < MaxOps
    /\ now + d <= MaxTime
    /\ (~stops \/ raised # "") => d = 0
    /\ IF raised = ""
       THEN /\ ck_target_logs' =
                   IF stopped[target].added THEN stopped
                   ELSE add_targets(stopped, target)
            /\ ck_keys' = KeysAdded(ck_keys, target)
            /\ ck_current_target' = target
            /\ ck_t' = now + d
            /\ now' = now + d
            /\ ck_ops' = Append(ck_ops,
                   OpRec("clock", target, now + d, "",
                         IF stops THEN ck_current_target ELSE None))
       ELSE /\ ck_ops' = Append(ck_ops,
                   OpRec("clock", target, now, raised, None))
            /\ UNCHANGED <<ck_target_logs, ck_keys, ck_current_target, ck_t,
                           now>>
    /\ UNCHANGED <<cache_vars, rb_vars, tk_vars, rest_vars>>

\* the position in keys of the first target whose file is closed, or
\* Len(keys) + 1
FirstClosed(keys) ==
    IF \E i \in 1..Len(keys) : ck_target_logs[keys[i]].closed
    THEN CHOOSE i \in 1..Len(keys) :
             /\ ck_target_logs[keys[i]].closed
             /\ \A k \in 1..(i - 1) : ~ck_target_logs[keys[k]].closed
    ELSE Len(keys) + 1

\* flush(), lines 728-731: the files are flushed in the order of the keys;
\* flush() of a closed file raises ValueError and ends the loop
flush ==
    /\ Len(ck_ops) < MaxOps
    /\ ck_target_logs' =
           [t \in Targets |->
               IF \E i \in 1..(FirstClosed(ck_keys) - 1) : ck_keys[i] = t
               THEN [ck_target_logs[t] EXCEPT
                        !.buf = <<>>,
                        !.disk = ck_target_logs[t].disk \o ck_target_logs[t].buf]
               ELSE ck_target_logs[t]]
    /\ ck_ops' = Append(ck_ops,
           OpRec("flush", None, now,
                 IF FirstClosed(ck_keys) <= Len(ck_keys) THEN "ValueError"
                 ELSE "",
                 None))
    /\ UNCHANGED <<ck_t, ck_current_target, ck_keys, now, cache_vars, rb_vars,
                   tk_vars, rest_vars>>

\* close(), lines 733-736, also what __del__ does (lines 742-743): every
\* file of target_logs is closed, which writes its buffered lines
close ==
    /\ Len(ck_ops) < MaxOps
    /\ ck_target_logs' =
           [t \in Targets |->
               IF ck_target_logs[t].added
               THEN [added |-> TRUE, closed |-> TRUE, buf |-> <<>>,
                     disk |-> ck_target_logs[t].disk \o ck_target_logs[t].buf]
               ELSE ck_target_logs[t]]
    /\ ck_ops' = Append(ck_ops, OpRec("close", None, now, "", None))
    /\ UNCHANGED <<ck_t, ck_current_target, ck_keys, now, cache_vars, rb_vars,
                   tk_vars, rest_vars>>

\* time passes between two operations
Tick ==
    /\ now < MaxTime
    /\ now' = now + 1
    /\ UNCHANGED <<ck_t, ck_current_target, ck_target_logs, ck_keys, ck_ops,
                   cache_vars, rb_vars, tk_vars, rest_vars>>

(***************************************************************************)
(* SpecClocker: any sequence of up to MaxOps operations on a fresh Clocker.*)
(***************************************************************************)
NextClocker ==
    \/ \E target \in Targets, d \in 0..1 : clock(target, d)
    \/ stop_clock
    \/ \E target \in Targets : AddTargets(target)
    \/ flush
    \/ close
    \/ Tick

SpecClocker == Init /\ [][NextClocker]_vars

(***************************************************************************)
(* Stopwatch, lines 593-670.  The methods are operators on the fields s    *)
(* and on what time.time() returns when they read it; time is in whole     *)
(* ticks.                                                                  *)
(***************************************************************************)
\* is_running(), lines 602-609
is_running(s) == s.is_running

\* elapsed(), lines 611-626
elapsed(s, t) ==
    IF s.is_running THEN s.elapsed + t - s.start_time ELSE s.elapsed

\* mutant of start: the start time is taken also while running
start_Always(s, t) == [s EXCEPT !.start_time = t, !.is_running = TRUE]

\* start(), lines 628-632
start(s, t) ==
    IF ~s.is_running
    THEN [s EXCEPT !.start_time = t, !.is_running = TRUE]
    ELSE s

\* stop(), lines 634-646: the fields after the call and the value returned
stop(s, t) ==
    LET after == IF s.is_running
                 THEN [s EXCEPT !.stop_time = t,
                                !.elapsed = @ + (t - s.start_time),
                                !.is_running = FALSE]
                 ELSE s
    IN [sw |-> after, ret |-> after.elapsed]

\* mutant of reset: the elapsed time is kept
reset_Keep(s, t) == stop(s, t)

\* reset(), lines 648-658
reset(s, t) ==
    LET stopped == stop(s, t)
    IN [sw |-> [stopped.sw EXCEPT !.elapsed = 0], ret |-> stopped.ret]

\* restart(), lines 660-670: stop reads the time as t, start reads it as t2
restart(s, t, t2) ==
    LET cleared == reset(s, t)
    IN [sw |-> start(cleared.sw, t2), ret |-> cleared.ret]

\* the four calls on the stopwatch sw, and the passing of time
Start ==
    /\ sw' = start(sw, sw_time)
    /\ sw_last' = SwCall("start", 0, sw, sw_total)
    /\ sw_running' = TRUE
    /\ UNCHANGED <<sw_time, sw_total, cache_vars, rb_vars, ck_vars, tk_vars, fn_vars>>

Stop ==
    /\ sw' = stop(sw, sw_time).sw
    /\ sw_last' = SwCall("stop", stop(sw, sw_time).ret, sw, sw_total)
    /\ sw_running' = FALSE
    /\ UNCHANGED <<sw_time, sw_total, cache_vars, rb_vars, ck_vars, tk_vars, fn_vars>>

Reset ==
    /\ sw' = reset(sw, sw_time).sw
    /\ sw_last' = SwCall("reset", reset(sw, sw_time).ret, sw, sw_total)
    /\ sw_running' = FALSE
    /\ sw_total' = 0
    /\ UNCHANGED <<sw_time, cache_vars, rb_vars, ck_vars, tk_vars, fn_vars>>

\* d ticks pass between the two readings of the time in restart
Restart(d) ==
    /\ sw_time + d <= MaxClock
    /\ sw' = restart(sw, sw_time, sw_time + d).sw
    /\ sw_last' = SwCall("restart", restart(sw, sw_time, sw_time + d).ret,
                         sw, sw_total)
    /\ sw_time' = sw_time + d
    /\ sw_running' = TRUE
    /\ sw_total' = 0
    /\ UNCHANGED <<cache_vars, rb_vars, ck_vars, tk_vars, fn_vars>>

Pass ==
    /\ sw_time < MaxClock
    /\ sw_time' = sw_time + 1
    /\ sw_total' = IF sw_running THEN sw_total + 1 ELSE sw_total
    /\ sw_last' = [sw_last EXCEPT !.op = "pass"]
    /\ UNCHANGED <<sw, sw_running, cache_vars, rb_vars, ck_vars, tk_vars, fn_vars>>

(***************************************************************************)
(* SpecStopwatch: any sequence of calls on a new stopwatch while the clock *)
(* goes from 0 to MaxClock.                                                *)
(***************************************************************************)
NextStopwatch ==
    \/ Start
    \/ Stop
    \/ Reset
    \/ \E d \in 0..1 : Restart(d)
    \/ Pass

SpecStopwatch == Init /\ [][NextStopwatch]_vars

(***************************************************************************)
(* Ticker, lines 491-546.                                                  *)
(***************************************************************************)
MaxTicks == 5

\* a tick: the time when tick() was called, the time when it ended and the
\* value it returned
TickRec(t_call, t_end, r) == [t_call |-> t_call, t_end |-> t_end, ret |-> r]

\* mutant of tick: the stopwatch is not restarted
tick_NoRestart(d1, d2) ==
    /\ Len(tk_log) < MaxTicks
    /\ tk_time + d1 + d2 <= MaxClock
    /\ IF is_running(tk_stopwatch)
       THEN /\ put(elapsed(tk_stopwatch, tk_time))
            /\ tk_time' = tk_time + d1 + d2
            /\ tk_log' = Append(tk_log,
                   TickRec(tk_time, tk_time + d1 + d2,
                           elapsed(tk_stopwatch, tk_time)))
            /\ UNCHANGED tk_stopwatch
       ELSE /\ d1 = 0 /\ d2 = 0
            /\ tk_stopwatch' = start(tk_stopwatch, tk_time)
            /\ tk_log' = Append(tk_log, TickRec(tk_time, tk_time, 0))
            /\ UNCHANGED <<tk_time, rb_vars, cache_vars, ck_vars, rest_vars>>

\* tick(), lines 520-535.  elapsed() reads the time when tick is called;
\* restart() reads it d1 ticks later in stop and d2 ticks after that in
\* start.
tick(d1, d2) ==
    /\ Len(tk_log) < MaxTicks
    /\ tk_time + d1 + d2 <= MaxClock
    /\ IF is_running(tk_stopwatch)
       THEN /\ tk_stopwatch' =
                   restart(tk_stopwatch, tk_time + d1, tk_time + d1 + d2).sw
            /\ put(elapsed(tk_stopwatch, tk_time))
            /\ tk_time' = tk_time + d1 + d2
            /\ tk_log' = Append(tk_log,
                   TickRec(tk_time, tk_time + d1 + d2,
                           elapsed(tk_stopwatch, tk_time)))
       ELSE /\ d1 = 0 /\ d2 = 0
            /\ tk_stopwatch' = start(tk_stopwatch, tk_time)
            /\ tk_log' = Append(tk_log, TickRec(tk_time, tk_time, 0))
            /\ UNCHANGED <<tk_time, rb_vars, cache_vars, ck_vars, rest_vars>>

\* samples(), lines 537-545
samples == items

\* time passes between two ticks
TickerPass ==
    /\ tk_time < MaxClock
    /\ tk_time' = tk_time + 1
    /\ UNCHANGED <<tk_stopwatch, tk_log, rb_vars, cache_vars, ck_vars,
                   rest_vars>>

(***************************************************************************)
(* SpecTicker: a Ticker with a buffer of any size from 1 to MaxSize and up *)
(* to MaxTicks ticks while the clock goes from 0 to MaxClock.              *)
(***************************************************************************)
NextTicker ==
    \/ \E d1, d2 \in 0..1 : tick(d1, d2)
    \/ TickerPass

SpecTicker == InitRing /\ [][NextTicker]_vars

(***************************************************************************)
(* remove_extension, lines 142-159.  A string is the sequence of its       *)
(* characters.                                                             *)
(***************************************************************************)
MaxLen == 4

Chars == {"a", "b", "."}

\* the strings of at most n characters over the alphabet
StringsOver(alphabet, n) == UNION { [1..k -> alphabet] : k \in 0..n }

\* s.split(sep) for a separator of one character
RECURSIVE Split(_, _)
Split(s, sep) ==
    IF \A i \in 1..Len(s) : s[i] # sep
    THEN <<s>>
    ELSE LET i == CHOOSE j \in 1..Len(s) :
                      s[j] = sep /\ \A k \in 1..(j - 1) : s[k] # sep
         IN <<SubSeq(s, 1, i - 1)>> \o Split(SubSeq(s, i + 1, Len(s)), sep)

\* "".join(parts)
RECURSIVE Concat(_)
Concat(parts) ==
    IF Len(parts) = 0 THEN <<>> ELSE parts[1] \o Concat(Tail(parts))

\* remove_extension(s), lines 155-159
remove_extension(s) ==
    IF Len(Split(s, ".")) > 1
    THEN Concat(SubSeq(Split(s, "."), 1, Len(Split(s, ".")) - 1))
    ELSE s

\* the call remove_extension(re_s)
RemoveExtension ==
    /\ ~re_out.done
    /\ re_out' = [done |-> TRUE, val |-> remove_extension(re_s)]
    /\ UNCHANGED <<re_s, obj_vars, so_vars, mb_vars>>

(***************************************************************************)
(* SpecRemoveExtension: one call for every string of at most MaxLen        *)
(* characters.                                                             *)
(***************************************************************************)
InitRemoveExtension ==
    /\ ObjInit
    /\ \E s \in StringsOver(Chars, MaxLen) : RemoveExtensionInit(s)
    /\ SelectOptionsInit(1)
    /\ MultiBaseInit(<<>>)

NextRemoveExtension == RemoveExtension

SpecRemoveExtension == InitRemoveExtension /\ [][NextRemoveExtension]_vars

(***************************************************************************)
(* select_options, lines 839-898.  list_options only prints the options;   *)
(* the loop of lines 884-898 reads a line, returns a list or prints a      *)
(* failure and reads again.                                                *)
(***************************************************************************)
MaxOptions == 2
MaxInput == 3
MaxFailures == 2

\* the characters the user types
InputChars == {"0", "1", "2", "-", " ", "x"}

\* s.rstrip(): the spaces at the end are dropped
RECURSIVE RStrip(_)
RStrip(s) ==
    IF Len(s) > 0 /\ s[Len(s)] = " "
    THEN RStrip(SubSeq(s, 1, Len(s) - 1))
    ELSE s

IsDigits(tok) ==
    /\ Len(tok) > 0
    /\ \A i \in 1..Len(tok) : \E d \in 1..10 : DigitChars[d] = tok[i]

DigitValue(ch) == (CHOOSE d \in 1..10 : DigitChars[d] = ch) - 1

\* the number written by a string of decimal digits
RECURSIVE DigitsValue(_)
DigitsValue(tok) ==
    IF Len(tok) = 0 THEN 0
    ELSE 10 * DigitsValue(SubSeq(tok, 1, Len(tok) - 1))
             + DigitValue(tok[Len(tok)])

\* int(choice), line 892: an optional sign and decimal digits, or ValueError
ParseInt(tok) ==
    IF IsDigits(tok) THEN [ok |-> TRUE, val |-> DigitsValue(tok)]
    ELSE IF Len(tok) > 1 /\ tok[1] = "-" /\ IsDigits(Tail(tok))
    THEN [ok |-> TRUE, val |-> 0 - DigitsValue(Tail(tok))]
    ELSE [ok |-> FALSE, val |-> 0]

\* options[i] of Python applies: -len(options) <= i < len(options)
InRange(options, i) == 0 - Len(options) <= i /\ i < Len(options)

\* options[i] of Python: a negative i counts from the end
Item(options, i) ==
    IF i >= 0 THEN options[i + 1] ELSE options[Len(options) + i + 1]

\* lines 885-896: what one pass of the loop does with the line typed
Selected(options, line) ==
    LET user_input == RStrip(line)
        choices == Split(user_input, " ")
    IN
    IF user_input = <<>> THEN [ok |-> TRUE, val |-> <<>>]
    ELSE IF user_input = <<"0">> THEN [ok |-> TRUE, val |-> options]
    ELSE IF \A k \in 1..Len(choices) :
                /\ ParseInt(choices[k]).ok
                /\ InRange(options, ParseInt(choices[k]).val - 1)
    THEN [ok |-> TRUE,
          val |-> [k \in 1..Len(choices) |->
                      Item(options, ParseInt(choices[k]).val - 1)]]
    ELSE [ok |-> FALSE, val |-> <<>>]

\* the user types a line: select_options returns, or prints the failure
\* and prompts again
Input(line) ==
    /\ so_pc = "input"
    /\ so_printed < MaxFailures
    /\ so_input' = line
    /\ IF Selected(so_options, line).ok
       THEN /\ so_result' = Selected(so_options, line).val
            /\ so_pc' = "returned"
            /\ UNCHANGED so_printed
       ELSE /\ so_printed' = so_printed + 1
            /\ UNCHANGED <<so_result, so_pc>>
    /\ UNCHANGED <<so_options, obj_vars, re_vars, mb_vars>>

(***************************************************************************)
(* SpecSelectOptions: one call with 1 to MaxOptions options; the user      *)
(* types lines of at most MaxInput characters.                             *)
(***************************************************************************)
InitSelectOptions ==
    /\ ObjInit
    /\ RemoveExtensionInit(<<>>)
    /\ \E n \in 1..MaxOptions : SelectOptionsInit(n)
    /\ MultiBaseInit(<<>>)

NextSelectOptions == \E line \in StringsOver(InputChars, MaxInput) : Input(line)

SpecSelectOptions == InitSelectOptions /\ [][NextSelectOptions]_vars

(***************************************************************************)
(* MultiBaseNumber, compute_utils.py lines 3-76.                           *)
(***************************************************************************)
MaxDigits == 2

BaseVals == {0, 2, 3}

DigitVals == {-2, 0, 1, 2}

\* sequences of at most n numbers of a set
SeqsOver(vals, n) == UNION { [1..k -> vals] : k \in 0..n }

\* the digits argument: a sequence, or None when it is left out
Given(digits) == [none |-> FALSE, digits |-> digits]

NotGiven == [none |-> TRUE, digits |-> <<>>]

\* __check_bases, lines 31-32
check_bases(bases) == \A i \in 1..Len(bases) : bases[i] > 0

\* __check_digits, lines 34-46
check_digits(bases, digits) ==
    IF Len(digits) # Len(bases) THEN FALSE
    ELSE \A i \in 1..Len(digits) : digits[i] < bases[i]

\* __init__, lines 18-29: the number made, or the error raised
MultiBaseNumber(bases, arg) ==
    IF ~check_bases(bases)
    THEN [made |-> FALSE, raised |-> "ArithmeticError", bases |-> bases,
          digits |-> <<>>]
    ELSE IF arg.none
    THEN [made |-> TRUE, raised |-> "", bases |-> bases,
          digits |-> [i \in 1..Len(bases) |-> 0]]
    ELSE IF check_digits(bases, arg.digits)
    THEN [made |-> TRUE, raised |-> "", bases |-> bases,
          digits |-> arg.digits]
    ELSE [made |-> FALSE, raised |-> "ArithmeticError", bases |-> bases,
          digits |-> <<>>]

\* the loop of base_10, lines 72-75, from position i down to the first
RECURSIVE base_10_loop(_, _, _, _)
base_10_loop(x, i, n, b) ==
    IF i = 0 THEN n
    ELSE base_10_loop(x, i - 1, n + b * x.digits[i], b * x.bases[i])

\* base_10(), lines 67-76
base_10(x) == base_10_loop(x, Len(x.digits), 0, 1)

\* __eq__, lines 48-49
eq(x, y) == base_10(x) = base_10(y)

\* the two constructions over the bases
NewX(arg) ==
    /\ mb_x = NoNumber
    /\ mb_x' = MultiBaseNumber(mb_bases, arg)
    /\ UNCHANGED <<mb_bases, mb_y, obj_vars, re_vars, so_vars>>

NewY(arg) ==
    /\ mb_y = NoNumber
    /\ mb_y' = MultiBaseNumber(mb_bases, arg)
    /\ UNCHANGED <<mb_bases, mb_x, obj_vars, re_vars, so_vars>>

(***************************************************************************)
(* SpecMultiBase: two constructions over the same bases, for all bases and *)
(* digits of at most MaxDigits positions.                                  *)
(***************************************************************************)
DigitArgs == {NotGiven} \cup { Given(d) : d \in SeqsOver(DigitVals, MaxDigits) }

InitMultiBase ==
    /\ ObjInit
    /\ RemoveExtensionInit(<<>>)
    /\ SelectOptionsInit(1)
    /\ \E bases \in SeqsOver(BaseVals, MaxDigits) : MultiBaseInit(bases)

NextMultiBase ==
    \/ \E arg \in DigitArgs : NewX(arg)
    \/ \E arg \in DigitArgs : NewY(arg)

SpecMultiBase == InitMultiBase /\ [][NextMultiBase]_vars

(***************************************************************************)
(* Properties of the cache.                                                *)
(***************************************************************************)
Miss == {"fun", "store"}
Hit == {"load"}

\* how load_fn ends on a file with these bytes
LoadOf(bytes) ==
    IF PickleLoad(bytes).ok THEN Value(PickleLoad(bytes).val) ELSE Raise("LoadError")

\* C1: with no entry at the start and no external change to the key, the
\* first call invokes fun exactly once, and once the first call has returned
\* its value no later call on the key invokes fun: the counter of the key
\* stays at one.
C1_Memoization ==
    /\ \A c \in Callers :
        (pc[c] = "done" /\ seen[c].h.n_ret = 0)
            => ("fun" \in did[c] /\ hist[cache_fp[c]].f_calls = 1)
    /\ \A p \in Paths :
        (~hist[p].tampered /\ hist[p].first.kind = "value") => hist[p].f_calls = 1

\* a third identical call has ended and fun was invoked once
C1_Witness ==
    \E p \in Paths :
        /\ ~hist[p].tampered
        /\ hist[p].first.kind = "value"
        /\ hist[p].n_ret = 3
        /\ hist[p].f_calls = 1

\* C2: a call that finds a file at the entry path does not invoke fun and
\* ends as load_fn ends on that file, whatever fun would return now.
C2_HitShortCircuit ==
    \A c \in Callers :
        seen[c].file.exists =>
            /\ "fun" \notin did[c]
            /\ pc[c] = "done" => ret[c] = LoadOf(seen[c].file.data)

\* a hit has returned the stored value
C2_Witness ==
    \E c \in Callers :
        /\ pc[c] = "done"
        /\ seen[c].file.exists
        /\ ret[c].kind = "value"
        /\ did[c] = Hit

\* C3: no call both loads the entry and invokes fun or stores; a call that
\* has ended has done one of the two, and a call that returns a value has
\* either loaded it or has invoked fun and stored its result.
C3_ExactlyOne ==
    \A c \in Callers :
        /\ ~("load" \in did[c] /\ did[c] \cap Miss # {})
        /\ pc[c] = "done" => did[c] # {}
        /\ (pc[c] = "done" /\ ret[c].kind = "value") => did[c] \in {Hit, Miss}

\* a hit has ended after a miss on the same path
C3_Witness ==
    \E c \in Callers :
        /\ pc[c] = "done"
        /\ did[c] = Hit
        /\ seen[c].h.last.kind = "value"
        /\ seen[c].h.f_calls = 1

\* C4: an entry written by a miss keeps the content the first miss wrote,
\* as long as nothing outside changes it.
C4_EntryImmutable ==
    \A p \in Paths :
        (hist[p].written /\ ~hist[p].tampered) => fs[p] = File(hist[p].first_written)

\* two more calls on the key have ended since the entry was written, and
\* another key has been called as well
C4_Witness ==
    \E p \in Paths :
        /\ hist[p].written
        /\ ~hist[p].tampered
        /\ hist[p].n_ret >= 2
        /\ fs[p] = File(hist[p].first_written)
        /\ \E q \in Paths \ {p} : hist[q].n_ret >= 1

\* C5: a call that finds a file which load_fn cannot read raises the error
\* of load_fn; it does not invoke fun, returns no value and leaves the file
\* as it was.
C5_CorruptEntryRaises ==
    \A c \in Callers :
        (pc[c] = "done" /\ seen[c].file.exists /\ ~PickleLoad(seen[c].file.data).ok)
            => /\ ret[c] = Raise("LoadError")
               /\ did[c] = Hit
               /\ fs[cache_fp[c]] = seen[c].file

\* a call on a truncated entry has raised
C5_Witness ==
    \E c \in Callers :
        /\ pc[c] = "done"
        /\ seen[c].file.exists
        /\ Len(seen[c].file.data) \in 1..4
        /\ ret[c] = Raise("LoadError")

\* C6: when fun has returned, its result is returned to the caller even if
\* the directory or the entry file could not be written.
C6_ResultSurvivesWriteFailure ==
    \A c \in Callers :
        (pc[c] = "done" /\ output[c] \in Values) => ret[c] = Value(output[c])

\* C7: when fun raises, its error reaches the caller, no entry file and no
\* directory has been created, and the next call on the key is a miss again.
C7_FunErrorPropagates ==
    \A c \in Callers :
        /\ (pc[c] = "done" /\ "fun" \in did[c] /\ output[c] \notin Values)
              => /\ ret[c] = Raise("FunError")
                 /\ ~fs[cache_fp[c]].exists
                 /\ dirs = seen[c].dirs
        /\ (pc[c] = "done" /\ seen[c].h.last = Raise("FunError"))
              => "fun" \in did[c]

\* fun raised in one call, and the next call on the key has invoked fun again
C7_Witness ==
    \E c \in Callers :
        /\ pc[c] = "done"
        /\ seen[c].h.last = Raise("FunError")
        /\ did[c] = Miss
        /\ hist[cache_fp[c]].f_calls = 2

\* C8: a caller that finds the entry path present reads a complete entry,
\* also while another caller is writing it.
C8_NoPartialEntryRead ==
    \A c \in Callers :
        (pc[c] = "done" /\ "load" \in did[c]) => ret[c].kind = "value"

\* two callers have both missed on the same key and both have ended
BothMissed(c1, c2) ==
    /\ c1 # c2
    /\ pc[c1] = "done" /\ pc[c2] = "done"
    /\ cache_fp[c1] = cache_fp[c2]
    /\ did[c1] = Miss /\ did[c2] = Miss

\* C9: when two callers have both invoked fun and written the entry of the
\* same key, the entry holds what the caller whose write ended last wrote.
C9_LastWriterWins ==
    \A c1, c2 \in Callers :
        BothMissed(c1, c2) =>
            /\ hist[cache_fp[c1]].last_close \in {c1, c2}
            /\ fs[cache_fp[c1]] = File(PickleDump(output[hist[cache_fp[c1]].last_close]))

\* both callers invoked fun for the same key with different results, and the
\* entry holds the result of the second writer, not of the first
C9_Witness ==
    \E c1, c2 \in Callers :
        /\ BothMissed(c1, c2)
        /\ output[c1] # output[c2]
        /\ hist[cache_fp[c1]].f_calls = 2
        /\ hist[cache_fp[c1]].last_close = c2
        /\ fs[cache_fp[c1]] = File(PickleDump(output[c2]))

\* C10: the first call after the written entry was deleted invokes fun, and
\* when it returns it returns the result of fun and has written the entry
\* again; the calls after that are hits that return this result.
C10_DeletionForcesRecompute ==
    \A c \in Callers :
        /\ (pc[c] = "done" /\ seen[c].h.deleted)
              => /\ "fun" \in did[c]
                 /\ ret[c].kind = "value"
                       => /\ did[c] = Miss
                          /\ ret[c] = Value(output[c])
                          /\ fs[cache_fp[c]] = File(PickleDump(output[c]))
        /\ (pc[c] = "done" /\ seen[c].h.recreated)
              => /\ did[c] = Hit
                 /\ ret[c] = seen[c].h.last

\* a call has hit the entry that was written again after the deletion
C10_Witness ==
    \E c \in Callers :
        /\ pc[c] = "done"
        /\ seen[c].h.recreated
        /\ did[c] = Hit
        /\ hist[cache_fp[c]].f_calls = 2

\* two calls have the same string forms: str() of the positional arguments
\* pairwise, and str() of the keyword arguments
SameStr(i, j) ==
    /\ StrAll(i.args) = StrAll(j.args)
    /\ StrDict(i.kwargs) = StrDict(j.kwargs)

\* the namespace of a decorated function: its cache_id, or its name
Namespace(w) == IF w.cache_id = None THEN w.name ELSE w.cache_id

\* at the time caller c began its call, path q held an entry written by a
\* call of the same namespace with the same string forms
SameStrEntry(c, q) ==
    LET h == IF q = cache_fp[c] THEN seen[c].h ELSE hist[q]
        f == IF q = cache_fp[c] THEN seen[c].file ELSE fs[q]
    IN
    /\ f.exists
    /\ h.written
    /\ Namespace(h.by.w) = Namespace(seen[c].call.w)
    /\ SameStr(h.by, seen[c].call)

\* C11: calls whose string forms differ have different keys: a call is never
\* served from the entry of a call with other string forms.
C11_DistinctKeys ==
    \A c \in Callers :
        (pc[c] = "done" /\ did[c] = Hit) => SameStr(seen[c].h.by, seen[c].call)

\* C12: a call with the same string forms as the call that wrote an entry of
\* its namespace has the key of that entry: it is a hit on it and returns
\* what the call before returned, also when the arguments differ in type.
C12_KeyDeterminism ==
    \A c \in Callers : \A q \in Paths :
        (pc[c] = "done" /\ SameStrEntry(c, q))
            => /\ cache_fp[c] = q
               /\ did[c] = Hit
               /\ ret[c] = seen[c].h.last

\* square('1') has hit the entry that square(1) wrote
C12_Witness ==
    \E c \in Callers :
        /\ pc[c] = "done"
        /\ seen[c].call.args = <<StrVal(<<"1">>)>>
        /\ seen[c].h.by.args = <<IntVal(1)>>
        /\ SameStrEntry(c, cache_fp[c])
        /\ did[c] = Hit
        /\ ret[c].kind = "value"

\* path q holds an entry of the namespace of the call of caller c, and held
\* it when the call began
OwnEntry(c, q) ==
    /\ q.dir = Namespace(seen[c].call.w)
    /\ IF q = cache_fp[c] THEN seen[c].file.exists ELSE fs[q].exists

\* C13: a call is served only from an entry that a function of its own
\* namespace wrote; with no entry in its own namespace it invokes its own
\* function, whatever other namespaces hold for the same arguments, and the
\* entry it stores lies in its own namespace.
C13_NamespaceIsolation ==
    \A c \in Callers :
        /\ (pc[c] = "done" /\ did[c] = Hit)
              => Namespace(seen[c].h.by.w) = Namespace(seen[c].call.w)
        /\ (pc[c] = "done" /\ \A q \in Paths : ~OwnEntry(c, q))
              => did[c] = Miss
        /\ (pc[c] = "done" /\ did[c] = Miss)
              => /\ cache_fp[c].dir = Namespace(seen[c].call.w)
                 /\ hist[cache_fp[c]].by = seen[c].call

\* sqrt(1) has invoked its function and stored its entry while square(1) and
\* cube(1) have theirs
C13_Witness ==
    \E c \in Callers : \E q1, q2 \in Paths :
        /\ pc[c] = "done"
        /\ did[c] = Miss
        /\ seen[c].call = Invocation(Sqrt, <<IntVal(1)>>, NoKwargs)
        /\ fs[q1].exists /\ hist[q1].by = Invocation(Square, <<IntVal(1)>>, NoKwargs)
        /\ fs[q2].exists /\ hist[q2].by = Invocation(Cube, <<IntVal(1)>>, NoKwargs)
        /\ fs[cache_fp[c]].exists

\* C14: in a run without failures and external changes every call returns
\* the value that fun returned the one time it was invoked for the key: a
\* miss returns the result of fun, a hit returns what the miss returned.
C14_ReturnedValues ==
    \A c \in Callers :
        pc[c] = "done" =>
            /\ ret[c].kind = "value"
            /\ hist[cache_fp[c]].f_calls = 1
            /\ did[c] = Miss => ret[c] = Value(output[c])
            /\ did[c] = Hit => ret[c] = hist[cache_fp[c]].first
            /\ fs[cache_fp[c]] = File(PickleDump(hist[cache_fp[c]].first.val))

\* g(x) was 16, a second g(x) has returned 16 from the entry, and the entry
\* of another key holds 25
C14_Witness ==
    \E c \in Callers : \E q \in Paths :
        /\ pc[c] = "done"
        /\ did[c] = Hit
        /\ ret[c] = Value(16)
        /\ q # cache_fp[c]
        /\ fs[q] = File(PickleDump(25))

\* C15: a hit changes neither a file nor a directory; a miss creates no
\* directory but those of its path, all of them unless mkdir fails, and
\* changes no file but its entry, which a miss that returns has created.
C15_Frame ==
    /\ pc[1] = "load" => (fs' = fs /\ dirs' = dirs)
    /\ dirs' # dirs =>
          /\ pc[1] = "mkdir"
          /\ dirs \subseteq dirs'
          /\ dirs' \subseteq dirs \cup Parents(cache_fp[1])
          /\ pc'[1] = "open" => dirs' = dirs \cup Parents(cache_fp[1])
    /\ \A q \in Paths :
          fs'[q] # fs[q] =>
              \/ nfaults' # nfaults /\ pc[1] \in {"idle", "done"}
              \/ q = cache_fp[1] /\ pc[1] \in {"open", "dump"} /\ ~seen[1].file.exists

C15_MissCreates ==
    \A c \in Callers :
        (pc[c] = "done" /\ did[c] = Miss /\ ret[c].kind = "value")
            => /\ ~seen[c].file.exists
               /\ fs[cache_fp[c]] = File(PickleDump(output[c]))
               /\ dirs = seen[c].dirs \cup Parents(cache_fp[c])

C15_SideEffectsOnMisses == [][C15_Frame]_vars /\ []C15_MissCreates

\* a miss has created its entry in a directory that existed, next to an
\* entry that was there before
C15_Witness ==
    \E c \in Callers : \E q \in Paths :
        /\ pc[c] = "done"
        /\ did[c] = Miss
        /\ ret[c].kind = "value"
        /\ seen[c].dirs = dirs
        /\ q # cache_fp[c]
        /\ fs[q].exists

\* the number of puts so far
NumPuts == Len(put_log)

\* C16: after k puts into a buffer of size N, for every n with n <= N and
\* n <= k, n_last(n) is the list of the n items put last, in the order in
\* which they were put.
C16_NLast ==
    \A n \in 0..MaxSize :
        (n <= rb_buffer_size /\ n <= NumPuts)
            => n_last(n) = [ok |-> TRUE,
                            val |-> SubSeq(put_log, NumPuts - n + 1, NumPuts)]

\* 0..9 were put into a buffer of size 3 and n_last(2) is [8, 9]
C16_Witness ==
    /\ rb_buffer_size = 3
    /\ put_log = <<0, 1, 2, 3, 4, 5, 6, 7, 8, 9>>
    /\ n_last(2) = [ok |-> TRUE, val |-> <<8, 9>>]

\* C17: after one or more puts into a buffer of any size N >= 1, last() is
\* the item of the most recent put.
C17_Last == NumPuts >= 1 => last = put_log[NumPuts]

\* 1, 2, 3, 4 were put into a buffer of size 1 and last() is 4
C17_Witness ==
    /\ rb_buffer_size = 1
    /\ put_log = <<1, 2, 3, 4>>
    /\ last = 4

\* C18: items() has length N; the i-th item put (from 0) is in slot i mod N
\* until a later put overwrites it, that is while it is among the N most
\* recent; a slot never put to holds None. So the buffer holds exactly the
\* min(k, N) most recent items.
C18_Put ==
    /\ Len(items) = rb_buffer_size
    /\ \A i \in 0..(NumPuts - 1) :
          i >= NumPuts - rb_buffer_size
              => items[(i % rb_buffer_size) + 1] = put_log[i + 1]
    /\ \A slot \in 0..(rb_buffer_size - 1) :
          slot >= NumPuts => items[slot + 1] = NoneItem

\* 0..9 were put into a buffer of size 3 and items() is [9, 7, 8]
C18_Witness ==
    /\ rb_buffer_size = 3
    /\ put_log = <<0, 1, 2, 3, 4, 5, 6, 7, 8, 9>>
    /\ items = <<9, 7, 8>>

\* the operations so far are n rounds of clock('fun1'), clock('fun2') and
\* then close()
LoopThenClose(n) ==
    /\ Len(ck_ops) = 2 * n + 1
    /\ \A i \in 1..n :
          /\ ck_ops[2 * i - 1].op = "clock" /\ ck_ops[2 * i - 1].target = "fun1"
          /\ ck_ops[2 * i].op = "clock" /\ ck_ops[2 * i].target = "fun2"
    /\ ck_ops[2 * n + 1].op = "close"

\* C19: n rounds of clock('fun1'), clock('fun2') on a fresh Clocker and then
\* close() leave n samples in the file of fun1 and n in the file of fun2,
\* each the time from the start of the target in its clock() to the call
\* of the next operation.
C19_SampleCount ==
    \A n \in 1..MaxOps :
        LoopThenClose(n) =>
            /\ Len(ck_target_logs["fun1"].disk) = n
            /\ Len(ck_target_logs["fun2"].disk) = n
            /\ \A i \in 1..n :
                  /\ ck_target_logs["fun1"].disk[i]
                         = ck_ops[2 * i].t - ck_ops[2 * i - 1].t_end
                  /\ ck_target_logs["fun2"].disk[i]
                         = ck_ops[2 * i + 1].t - ck_ops[2 * i].t_end

\* operation i is called while no measurement is in progress: before any
\* clock(), or directly after a stop_clock()
IdleBefore(i) == i = 1 \/ ck_ops[i - 1].op = "stop_clock"

\* C20: stop_clock() with no measurement in progress writes no sample and
\* raises nothing; clock(target) after stop_clock() starts the measurement
\* of target, writes no sample and raises nothing.
C20_StopClockIdle ==
    \A i \in 1..Len(ck_ops) :
        /\ (ck_ops[i].op = "stop_clock" /\ IdleBefore(i))
              => (ck_ops[i].raised = "" /\ ck_ops[i].wrote = None)
        /\ (ck_ops[i].op = "clock" /\ i > 1 /\ ck_ops[i - 1].op = "stop_clock")
              => /\ ck_ops[i].raised = ""
                 /\ ck_ops[i].wrote = None
                 /\ i = Len(ck_ops) => ck_current_target = ck_ops[i].target

\* C25: when dump_fn raises or the write is cut short during a miss, no
\* file is left at the entry path, and the next call on the key is a miss
\* that invokes fun again, not a hit on an empty or cut entry.
C25_FailedDumpLeavesNoEntry ==
    \A c \in Callers :
        /\ (pc[c] = "done" /\ ret[c] = Raise("DumpError"))
              => ~fs[cache_fp[c]].exists
        /\ (pc[c] = "done" /\ seen[c].h.last = Raise("DumpError"))
              => ("fun" \in did[c] /\ "load" \notin did[c])

\* C21: elapsed() is the time the stopwatch has been running since the last
\* reset or restart; start() while running and stop() while stopped change
\* nothing; after reset() it is stopped with elapsed() 0; after restart() it
\* is running from the restart; stop, reset and restart return the elapsed
\* total of before the call.
C21_StopwatchElapsed ==
    /\ elapsed(sw, sw_time) = sw_total
    /\ is_running(sw) = sw_running
    /\ (sw_last.op = "start" /\ sw_last.sw.is_running) => sw = sw_last.sw
    /\ (sw_last.op = "stop" /\ ~sw_last.sw.is_running) => sw = sw_last.sw
    /\ sw_last.op = "reset" => (~is_running(sw) /\ elapsed(sw, sw_time) = 0)
    /\ sw_last.op = "restart" => (is_running(sw) /\ elapsed(sw, sw_time) = 0)
    /\ sw_last.op \in {"stop", "reset", "restart"} => sw_last.ret = sw_last.total

\* the stopwatch ran for one tick, was stopped for one and has run for one
\* more since: elapsed() is 2
C21_Witness ==
    /\ sw_time = 3
    /\ is_running(sw)
    /\ sw.stop_time = 1
    /\ sw.start_time = 2
    /\ elapsed(sw, sw_time) = 2

\* the number of ticks so far
NumTicks == Len(tk_log)

\* C22: the first tick() returns 0 and stores nothing; every later tick()
\* returns the time from the end of the tick before to its own call and
\* stores that value as the newest sample; after k >= 1 ticks samples()
\* holds the min(k - 1, buffer_size) latest of these times and None in the
\* other slots.
C22_TickerTick ==
    /\ NumTicks >= 1 => tk_log[1].ret = 0
    /\ NumPuts = IF NumTicks = 0 THEN 0 ELSE NumTicks - 1
    /\ \A i \in 2..NumTicks :
          /\ tk_log[i].ret = tk_log[i].t_call - tk_log[i - 1].t_end
          /\ put_log[i - 1] = tk_log[i].ret
    /\ Len(samples) = rb_buffer_size
    /\ \A i \in 0..(NumPuts - 1) :
          i >= NumPuts - rb_buffer_size
              => samples[(i % rb_buffer_size) + 1] = put_log[i + 1]
    /\ \A slot \in 0..(rb_buffer_size - 1) :
          slot >= NumPuts => samples[slot + 1] = NoneItem

\* four ticks, each one unit of time after the one before, on a Ticker
\* with two slots: three samples were stored and the first was pushed out
C22_Witness ==
    /\ rb_buffer_size = 2
    /\ NumTicks = 4
    /\ tk_log[1].ret = 0
    /\ put_log = <<1, 1, 1>>
    /\ samples = <<1, 1>>

\* the positions of the dots of the argument
Dots == { i \in 1..Len(re_s) : re_s[i] = "." }

\* the position of the last dot
LastDot == CHOOSE i \in Dots : \A j \in Dots : j <= i

\* C23: for a string with a dot, remove_extension returns what stands
\* before the last dot, earlier dots kept; a string with no dot is returned
\* as it is.
C23_RemoveExtension ==
    re_out.done =>
        re_out.val = IF Dots = {} THEN re_s ELSE SubSeq(re_s, 1, LastDot - 1)

\* the line that was accepted, without the spaces at its end, and its tokens
Typed == RStrip(so_input)

TypedTokens == Split(Typed, " ")

\* C24: select_options returns all options for the input 0, none for an
\* empty input and otherwise the options whose displayed indices, each in
\* 1..len(options), were typed, in the typed order; a line with any other
\* token is never accepted.
C24_SelectOptions ==
    so_pc = "returned" =>
        IF Typed = <<>> THEN so_result = <<>>
        ELSE IF Typed = <<"0">> THEN so_result = so_options
        ELSE /\ Len(so_result) = Len(TypedTokens)
             /\ \A k \in 1..Len(TypedTokens) :
                   /\ IsDigits(TypedTokens[k])
                   /\ DigitsValue(TypedTokens[k]) \in 1..Len(so_options)
                   /\ so_result[k] = so_options[DigitsValue(TypedTokens[k])]

\* the value of digits in the mixed radix of bases: the sum over i of
\* digits[i] times the product of the bases after position i
RECURSIVE ProductFrom(_, _)
ProductFrom(bases, i) ==
    IF i > Len(bases) THEN 1 ELSE bases[i] * ProductFrom(bases, i + 1)

RECURSIVE MixedRadix(_, _, _)
MixedRadix(bases, digits, i) ==
    IF i > Len(digits) THEN 0
    ELSE digits[i] * ProductFrom(bases, i + 1) + MixedRadix(bases, digits, i + 1)

\* a number that was constructed is a faithful encoding
Faithful(x) ==
    x.made =>
        /\ \A i \in 1..Len(x.bases) : x.bases[i] > 0
        /\ Len(x.digits) = Len(x.bases)
        /\ \A i \in 1..Len(x.digits) : 0 <= x.digits[i] /\ x.digits[i] < x.bases[i]
        /\ base_10(x) = MixedRadix(x.bases, x.digits, 1)

\* C26: a MultiBaseNumber is constructed only from bases that are all > 0
\* and digits, one for each base, with 0 <= digits[i] < bases[i]; base_10()
\* is its mixed-radix value; two numbers over the same bases are == exactly
\* when their digits are equal.
C26_MultiBaseFaithful ==
    /\ Faithful(mb_x)
    /\ Faithful(mb_y)
    /\ (mb_x.made /\ mb_y.made) => (eq(mb_x, mb_y) <=> mb_x.digits = mb_y.digits)

=============================================================================
